---- MODULE Spec2Model ----
(***************************************************************************)
(* Terminal bridge of http2editor: the server-side session registry of     *)
(* server.js (terminalSessions, the SSE channel endpoint, the input and    *)
(* resize endpoints) and the input queue of public/app.js.                 *)
(***************************************************************************)
EXTENDS Integers, Sequences, FiniteSets, TLC

\* ------------------------------------------------------------------ bounds
MaxChan == 3        \* channels (GET /api/terminal/:id requests) ever opened
MaxProc == 2        \* pty processes ever spawned
MaxOut == 2         \* output chunks the processes emit in all
MaxQueueChan == 2   \* channels the page of the input queue opens
MaxWrite == 2       \* input requests the processes receive in all

SessionIds == {"s1", "s2"}  \* the ids requests may name
OpenIds == {"s1"}           \* the ids channels are opened for
MaxKeys == 3          \* keystrokes the terminal hands to terminal.onData
MaxResize == 2        \* resize requests in flight plus resize failures logged
MaxEs == 2            \* EventSource objects one page creates
MaxRaf == 2           \* animation frames pending when a focus or visibility event flushes
MaxNetErr == 1        \* transport errors and unparsable messages one page sees
PageLoadTime == 100 \* Date.now() when the page loads
INPUT_DEBOUNCE_MS == 5
ClientSessionId == "s1"     \* terminalSessionId, minted once at page load
Keys == {<<"a">>, <<"c", "d">>}   \* payloads of terminal.onData
TypedKeys == Keys \cup {<<"b">>}   \* with a second single character
\* no terminal.onData event yet
NoKey == [data |-> <<>>, suppressed |-> FALSE, afterSuppressed |-> FALSE]
DeltaT == {0, 5}            \* milliseconds between two terminal.onData events
ExitOutcomes == {<<0, 0>>, <<1, 15>>}   \* {exitCode, signal} a pty can report

NoProc == 0         \* terminalSessions.get(id) === undefined
NoRes == 0          \* session.res === null

\* ------------------------------------------------------------------- state
VARIABLES
    terminalSessions,   \* server.js:75   id -> session object (named by its pty), or NoProc
    procs,              \* every pty spawned so far, with its closure and its session object
    chans,              \* every SSE request/response pair opened so far
    lastResp,           \* the last response of the input and resize endpoints
    inputQueue,         \* app.js:300
    isProcessingInput,  \* app.js:301
    lastInputTime,      \* app.js:302
    now,                \* the browser clock, Date.now()
    rafPending,         \* requestAnimationFrame(processInputQueue) callbacks not yet run
    inflight,           \* input requests issued by fetch and not yet settled
    lastKey,            \* history: the latest terminal.onData event and its outcome
    enqueued,           \* history: every payload pushed onto inputQueue, in order
    sent,               \* history: every payload handed to sendTerminalInput, in order
    lastResize,         \* the last response of the resize endpoint, and what it passed to pty.resize
    termDims,           \* app.js terminal.cols, terminal.rows
    resizeInflight,     \* resize requests issued by resizeTerminal and not yet settled
    resizeErrors,       \* console.error calls of resizeTerminal's promise chain
    fitTimer,           \* app.js:210 the setTimeout(..., 200) of initTerminal is pending
    sessionReady,       \* app.js sessionReady
    es,                 \* the EventSource objects connectTerminal created; the last is `eventSource`
    connectTimers,      \* pending setTimeout callbacks that call connectTerminal
    termLast,           \* the last terminal.write of the connection code
    termOut,            \* the output payloads written to the terminal, in order
    netErrors,          \* transport errors and unparsable messages seen so far
    rafQueue,           \* the closures whose flushBuffer requested an animation frame, in request order
    received            \* history: the payloads of the output frames onmessage was given, in order

server == <<terminalSessions, procs, chans, lastResp, lastResize>>
page == <<termDims, resizeInflight, resizeErrors, fitTimer>>
conn == <<sessionReady, es, connectTimers, termLast, termOut, netErrors, rafQueue, received>>
client == <<inputQueue, isProcessingInput, lastInputTime, now, rafPending, inflight,
            enqueued, sent, lastKey>>
vars == <<terminalSessions, procs, chans, lastResp, inputQueue, isProcessingInput,
          lastInputTime, now, rafPending, inflight, enqueued, sent, lastKey, lastResize,
          termDims, resizeInflight, resizeErrors, fitTimer, sessionReady, es,
          connectTimers,
          termLast, termOut, netErrors, rafQueue, received>>

\* request bodies of the input endpoint: `input` absent, a string (a sequence
\* of characters) or a number
NoBody == [kind |-> "missing", str |-> <<>>, num |-> 0]
StrBody(s) == [kind |-> "string", str |-> s, num |-> 0]
NumBody(n) == [kind |-> "number", str |-> <<>>, num |-> n]
InputStrings == {<<>>, <<"a">>, <<"a", "b">>}
InputBodies == {NoBody} \cup {StrBody(s) : s \in InputStrings} \cup {NumBody(7)}
Newline == StrBody(<<"\r", "\n">>)
NoResp == [op |-> "none", id |-> "s1", body |-> NoBody, status |-> 0, tick |-> 0]

\* a cols or rows value of a resize body or of the terminal: absent, an
\* integer n, or the non-integer n + 1/2
NoDim == [kind |-> "missing", n |-> 0]
IntDim(n) == [kind |-> "int", n |-> n]
FracDim(n) == [kind |-> "frac", n |-> n]
\* the {cols, rows} bodies a resize request is sent with
ResizeBodies == {<<IntDim(120), IntDim(40)>>, <<IntDim(100), IntDim(30)>>,
                 <<NoDim, IntDim(0)>>, <<IntDim(-1), FracDim(2)>>}
\* the terminal.cols, terminal.rows a fit leaves behind
TermFits == {<<IntDim(120), IntDim(40)>>, <<IntDim(0), IntDim(0)>>,
             <<IntDim(5), IntDim(3)>>, <<NoDim, NoDim>>}
DefaultCols == IntDim(80)
DefaultRows == IntDim(24)
NoResize == [id |-> "s1", cols |-> NoDim, rows |-> NoDim, status |-> 0,
             called |-> FALSE, tick |-> 0]

\* ------------------------------------------------------------------ frames
ConnectedFrame == [type |-> "connected", data |-> 0, exitCode |-> 0, signal |-> 0]
OutputFrame(d) == [type |-> "output", data |-> d, exitCode |-> 0, signal |-> 0]
ExitFrame(code, sig) == [type |-> "exit", data |-> 0, exitCode |-> code, signal |-> sig]

\* res.write(frame) on response c: a response that is already closed or ended
\* takes no frame; the attempt on an ended one is counted.
ResWrite(cs, c, f) ==
    IF cs[c].destroyed THEN cs
    ELSE IF cs[c].ended THEN [cs EXCEPT ![c].lateWrites = @ + 1]
    ELSE [cs EXCEPT ![c].frames = Append(@, f)]

\* res.end()
ResEnd(cs, c) == [cs EXCEPT ![c].ended = TRUE]

\* nothing written to the terminal yet
NoWrite == [msg |-> "none", data |-> <<>>, tick |-> 0]

\* ------------------------------------------------------------------- Init
Init ==
    /\ terminalSessions = [id \in SessionIds |-> NoProc]
    /\ procs = <<>>
    /\ chans = <<>>
    /\ lastResp = NoResp
    /\ inputQueue = <<>>
    /\ isProcessingInput = FALSE
    /\ lastInputTime = 0
    /\ now = PageLoadTime
    /\ rafPending = 0
    /\ inflight = <<>>
    /\ enqueued = <<>>
    /\ lastKey = NoKey
    /\ sent = <<>>
    /\ lastResize = NoResize
    /\ termDims \in {<<DefaultCols, DefaultRows>>}
    /\ resizeInflight = <<>>
    /\ resizeErrors = 0
    /\ fitTimer = TRUE
    /\ sessionReady = FALSE
    /\ es = <<>>
    /\ connectTimers = 1
    /\ termLast = NoWrite
    /\ termOut = <<>>
    /\ netErrors = 0
    /\ rafQueue = <<>>
    /\ received = <<>>

\* ------------------------------------------- GET /api/terminal/:sessionId
NewChanSilent(id, sess) ==
    [id |-> id, session |-> sess, destroyed |-> FALSE, ended |-> FALSE,
     frames |-> <<>>, lateWrites |-> 0, closedAt |-> 0]

\* the response of an attach request after line 89 has written `connected`
NewChan(id, sess) ==
    [id |-> id, session |-> sess, destroyed |-> FALSE, ended |-> FALSE,
     frames |-> <<ConnectedFrame>>, lateWrites |-> 0, closedAt |-> 0]

NewProc(id, c) ==
    [id |-> id, res |-> c, sres |-> c, state |-> "running", exitNotifs |-> 0,
     exit |-> <<0, 0>>, timer |-> TRUE, written |-> <<>>, emitted |-> 0,
     cols |-> DefaultCols, rows |-> DefaultRows]

AttachSpawnsAlways(id) == TRUE

\* the branch of line 92: spawn only when the id has no entry
AttachSpawns(id) == terminalSessions[id] = NoProc

\* the handler of an attach request: what it does to the server's state
AttachServer(id) ==
    /\ Len(chans) < MaxChan
    /\ LET c == Len(chans) + 1 IN
       IF AttachSpawns(id)
       THEN /\ Len(procs) < MaxProc
            /\ LET p == Len(procs) + 1 IN
               /\ procs' = Append(procs, NewProc(id, c))
               /\ terminalSessions' = [terminalSessions EXCEPT ![id] = p]
               /\ chans' = Append(chans, NewChan(id, p))
       ELSE /\ LET p == terminalSessions[id] IN
               /\ procs' = [procs EXCEPT ![p].sres = c]
               /\ chans' = Append(chans, NewChan(id, p))
            /\ UNCHANGED terminalSessions

\* an attach request sent by some HTTP client
Attach(id) ==
    /\ AttachServer(id)
    /\ UNCHANGED <<lastResp, lastResize, client, page, conn>>

SpawnFailureRegistryWiped(id) == [s \in SessionIds |-> NoProc]

\* The registry after pty.spawn has thrown in the handler of an attach for
\* id: line 151 (terminalSessions.set) is never reached.
SpawnFailureRegistry(id) == terminalSessions

\* an attach request for an unregistered id whose pty.spawn (line 97) throws:
\* `connected` is already written, no callback, no registry entry, no close
\* handler and no timer exist for this response
AttachSpawnFails(id) ==
    /\ Len(chans) < MaxChan
    /\ AttachSpawns(id)
    /\ chans' = Append(chans, NewChan(id, NoProc))
    /\ terminalSessions' = SpawnFailureRegistry(id)
    /\ UNCHANGED <<procs, lastResp, lastResize, client, page, conn>>

\* ------------------------------------------------------ ptyProcess.onData
OnDataSinkAnyOpen(p) ==
    LET S == {c \in DOMAIN chans : chans[c].id = procs[p].id /\ ~chans[c].destroyed}
    IN  IF S = {} THEN NoRes ELSE CHOOSE c \in S : \A d \in S : d <= c

OnDataSinkClosureOnly(p) ==
    IF ~chans[procs[p].res].destroyed THEN procs[p].res ELSE NoRes

\* The response the onData callback writes to: the `res` of its closure (the
\* response of the request that created the session) while that one is not
\* destroyed, otherwise the registered session's current `res`.
OnDataSink(p) ==
    LET r == procs[p].res
        s == terminalSessions[procs[p].id]
    IN  IF ~chans[r].destroyed THEN r
        ELSE IF s # NoProc /\ procs[s].sres # NoRes /\ ~chans[procs[s].sres].destroyed
             THEN procs[s].sres
             ELSE NoRes

RECURSIVE TotalEmitted(_)
TotalEmitted(n) == IF n = 0 THEN 0 ELSE procs[n].emitted + TotalEmitted(n - 1)

OnData(p) ==
    /\ procs[p].state = "running"
    /\ TotalEmitted(Len(procs)) < MaxOut
    /\ LET k == procs[p].emitted + 1
           c == OnDataSink(p)
       IN  /\ procs' = [procs EXCEPT ![p].emitted = k]
           /\ chans' = IF c = NoRes THEN chans ELSE ResWrite(chans, c, OutputFrame(k))
    /\ UNCHANGED <<terminalSessions, lastResp, lastResize, client, page, conn>>

\* ------------------------------------------------------ ptyProcess.onExit
\* the child process ends; node-pty will call the onExit callback
ProcExit(p, o) ==
    /\ procs[p].state = "running"
    /\ procs' = [procs EXCEPT ![p].state = "exited", ![p].exit = o,
                              ![p].exitNotifs = 1]
    /\ UNCHANGED <<terminalSessions, chans, lastResp, lastResize, client, page, conn>>

\* the same, with the exit notification delivered to the callback twice
ProcExitTwice(p, o) ==
    /\ procs[p].state = "running"
    /\ procs' = [procs EXCEPT ![p].state = "exited", ![p].exit = o,
                              ![p].exitNotifs = 2]
    /\ UNCHANGED <<terminalSessions, chans, lastResp, lastResize, client, page, conn>>

\* The response the onExit callback writes the exit frame to and ends.
OnExitSink(p) ==
    LET r == procs[p].res IN IF ~chans[r].destroyed THEN r ELSE NoRes

OnExitRegistryKeeps(p) == terminalSessions

\* terminalSessions.delete(sessionId)
OnExitRegistry(p) == [terminalSessions EXCEPT ![procs[p].id] = NoProc]

OnExit(p) ==
    /\ procs[p].exitNotifs > 0
    /\ LET c == OnExitSink(p)
           o == procs[p].exit
       IN  chans' = IF c = NoRes THEN chans
                    ELSE ResEnd(ResWrite(chans, c, ExitFrame(o[1], o[2])), c)
    /\ terminalSessions' = OnExitRegistry(p)
    /\ procs' = [procs EXCEPT ![p].exitNotifs = @ - 1, ![p].state = "notified"]
    /\ UNCHANGED <<lastResp, lastResize, client, page, conn>>

\* ---------------------------------------------------------- req.on('close')
CloseHandlerDeletes(c) == [terminalSessions EXCEPT ![chans[c].id] = NoProc]

\* The registry after the close handler of channel c: the handler does not
\* touch terminalSessions ("Don't kill the session on disconnect").
CloseHandlerRegistry(c) == terminalSessions

\* What the close handler of channel c leaves in session.res of the session
\* object it captured at line 170. closedAt records how many channels had
\* been opened when c closed.
CloseHandlerRes(c, cur) == NoRes

\* The transport of channel c goes away (the client closes its EventSource or
\* the connection drops, or the response ended by onExit finishes): the
\* response becomes destroyed and the request's 'close' handler runs.
TransportClose(c) ==
    /\ ~chans[c].destroyed
    /\ chans' = [chans EXCEPT ![c].destroyed = TRUE, ![c].closedAt = Len(chans)]
    /\ LET s == chans[c].session IN
       procs' = IF s = NoProc THEN procs
                ELSE [procs EXCEPT ![s].sres = CloseHandlerRes(c, @)]
    /\ terminalSessions' = CloseHandlerRegistry(c)
    /\ UNCHANGED <<lastResp, lastResize, client, page, conn>>

\* --------------------------------------------- setTimeout(..., 100) at 155
\* node-pty's IPty has no `killed` property, so the guard of line 156 holds
\* for every pty the timer was armed for.
TimerWrites(p) == TRUE

TimerFire(p) ==
    /\ procs[p].timer
    /\ procs' = [procs EXCEPT ![p].timer = FALSE,
                              ![p].written = IF TimerWrites(p)
                                             THEN Append(@, [src |-> "timer", body |-> Newline])
                                             ELSE @]
    /\ UNCHANGED <<terminalSessions, chans, lastResp, lastResize, client, page, conn>>

\* -------------------------------------- POST /api/terminal/:sessionId/input
\* `!input` of line 192: undefined, "" and 0 are falsy
InputRejected(b) ==
    CASE b.kind = "missing" -> TRUE
      [] b.kind = "string" -> b.str = <<>>
      [] b.kind = "number" -> b.num = 0

SessionFoundAlways(id) == TRUE

\* `session && session.pty` of line 197
SessionFound(id) == terminalSessions[id] # NoProc

\* what the handler does with request body b for session id: the new pty
\* table and the status of the response
InputHandler(id, b) ==
    IF InputRejected(b) THEN [procs |-> procs, status |-> 400]
    ELSE IF SessionFound(id)
         THEN [procs |-> [procs EXCEPT ![terminalSessions[id]].written =
                             Append(@, [src |-> "input", body |-> b])],
               status |-> 200]
         ELSE [procs |-> procs, status |-> 404]

InputWrites(p) ==
    Cardinality({i \in DOMAIN procs[p].written : procs[p].written[i].src = "input"})

RECURSIVE TotalInputWrites(_)
TotalInputWrites(n) == IF n = 0 THEN 0 ELSE InputWrites(n) + TotalInputWrites(n - 1)

InputWithinBound == TotalInputWrites(Len(procs)) < MaxWrite

\* an input request sent by some HTTP client, handled and answered
InputReq(id, b) ==
    /\ InputWithinBound
    /\ LET h == InputHandler(id, b) IN
       /\ procs' = h.procs
       /\ lastResp' = [op |-> "input", id |-> id, body |-> b, status |-> h.status,
                       tick |-> 1 - lastResp.tick]
    /\ UNCHANGED <<terminalSessions, chans, lastResize, client, page, conn>>

\* ------------------------------------------- POST /api/terminal/:id/resize
\* a dimension the pty can take: a positive integer
ValidDim(d) == d.kind = "int" /\ d.n >= 1

ResizeTargetAny(id) ==
    LET S == {s \in SessionIds : terminalSessions[s] # NoProc}
    IN  IF S = {} THEN NoProc ELSE terminalSessions[CHOOSE s \in S : TRUE]

\* `terminalSessions.get(sessionId)` narrowed by `session && session.pty`:
\* the session object the handler resizes, NoProc when there is none
ResizeTarget(id) == terminalSessions[id]

PtyResizeIgnored(p, c, r, rejects) == [procs |-> procs, threw |-> FALSE]

\* pty.resize(cols, rows) on pty p. The handler hands over the body's values
\* as they are; what node-pty does with values that are no positive integers
\* is not fixed by the source: it throws (rejects = TRUE) or takes them.
PtyResize(p, c, r, rejects) ==
    IF (ValidDim(c) /\ ValidDim(r)) \/ ~rejects
    THEN [procs |-> [procs EXCEPT ![p].cols = c, ![p].rows = r], threw |-> FALSE]
    ELSE [procs |-> procs, threw |-> TRUE]

\* what the handler does with the body {cols: c, rows: r} for session id
ResizeHandler(id, c, r, rejects) ==
    LET p == ResizeTarget(id) IN
    IF p # NoProc
    THEN LET z == PtyResize(p, c, r, rejects) IN
         [procs |-> z.procs, called |-> TRUE,
          status |-> IF z.threw THEN 500 ELSE 200]
    ELSE [procs |-> procs, called |-> FALSE, status |-> 404]

\* a resize request sent by some HTTP client, handled and answered
ResizeReq(id, c, r, rejects) ==
    /\ LET h == ResizeHandler(id, c, r, rejects) IN
       /\ procs' = h.procs
       /\ lastResize' = [id |-> id, cols |-> c, rows |-> r, status |-> h.status,
                         called |-> h.called, tick |-> 1 - lastResize.tick]
    /\ UNCHANGED <<terminalSessions, chans, lastResp, client, page, conn>>

\* --------------------------------------------------- app.js resizeTerminal
RemoveAt(sq, i) == SubSeq(sq, 1, i - 1) \o SubSeq(sq, i + 1, Len(sq))

\* JavaScript truthiness of a dimension (`!cols`, `cols || 80`)
Falsy(d) == d.kind = "missing" \/ (d.kind = "int" /\ d.n = 0)

\* `cols < 10` for a dimension that is a number
Below(d, n) == d.kind # "missing" /\ d.n < n

\* lines 535-541: the dimensions resizeTerminal puts in the request
ClientDims(c, r) ==
    IF Falsy(c) \/ Falsy(r) \/ Below(c, 10) \/ Below(r, 5)
    THEN [cols |-> IF Falsy(c) THEN DefaultCols ELSE c,
          rows |-> IF Falsy(r) THEN DefaultRows ELSE r]
    ELSE [cols |-> c, rows |-> r]

\* the early return of line 518
ResizeSkipped(c, r) == c.kind = "missing" \/ r.kind = "missing"

\* the terminal is fitted to c x r and resizeTerminal() runs
FitResize(c, r) ==
    /\ Len(resizeInflight) + resizeErrors < MaxResize
    /\ termDims' = <<c, r>>
    /\ resizeInflight' =
          IF ResizeSkipped(c, r) THEN resizeInflight
          ELSE LET d == ClientDims(c, r) IN
               Append(resizeInflight, [cols |-> d.cols, rows |-> d.rows, status |-> 0])
    /\ UNCHANGED <<resizeErrors, fitTimer, server, client, conn>>

\* lines 210-223: the delayed fit of initTerminal, 200 ms after the terminal
\* was opened and so after the 100 ms timer of line 364 has called
\* connectTerminal; the guard of line 216 is the early return of line 518
DelayedFit(c, r) ==
    /\ fitTimer
    /\ es # <<>>
    /\ fitTimer' = FALSE
    /\ termDims' = <<c, r>>
    /\ resizeInflight' =
          IF ResizeSkipped(c, r) THEN resizeInflight
          ELSE LET d == ClientDims(c, r) IN
               Append(resizeInflight, [cols |-> d.cols, rows |-> d.rows, status |-> 0])
    /\ UNCHANGED <<resizeErrors, server, client, conn>>

\* the server handles the i-th resize request the page has in flight
ServeResize(i, rejects) ==
    /\ resizeInflight[i].status = 0
    /\ LET q == resizeInflight[i]
           h == ResizeHandler(ClientSessionId, q.cols, q.rows, rejects) IN
       /\ procs' = h.procs
       /\ lastResize' = [id |-> ClientSessionId, cols |-> q.cols, rows |-> q.rows,
                         status |-> h.status, called |-> h.called,
                         tick |-> 1 - lastResize.tick]
       /\ resizeInflight' = [resizeInflight EXCEPT ![i].status = h.status]
    /\ UNCHANGED <<terminalSessions, chans, lastResp, client, termDims, resizeErrors,
                   fitTimer, conn>>

ResizeLoggedAlways(status) == TRUE

\* lines 547-575: the promise chain ends in console.error for a failure that
\* is not the 404 of a missing session
ResizeLogged(status) == status # 200 /\ status # 404

\* the fetch of the i-th resize request settles
SettleResize(i) ==
    /\ resizeInflight[i].status # 0
    /\ resizeErrors' = IF ResizeLogged(resizeInflight[i].status)
                       THEN resizeErrors + 1 ELSE resizeErrors
    /\ resizeInflight' = RemoveAt(resizeInflight, i)
    /\ UNCHANGED <<termDims, fitTimer, server, client, conn>>

\* ------------------------------------------------- app.js processInputQueue
QueuePopLast(q) == [input |-> q[Len(q)], rest |-> SubSeq(q, 1, Len(q) - 1)]

\* The entry processInputQueue takes from the queue (inputQueue.shift()), and
\* the queue it leaves.
QueuePop(q) == [input |-> Head(q), rest |-> Tail(q)]

DrainBlockedOnEmptyOnly(busy, q) == q = <<>>

\* The early return of line 306.
DrainBlocked(busy, q) == busy \/ q = <<>>

\* processInputQueue(): client state after the call
ProcessInputQueue(q, busy, fl, st) ==
    IF DrainBlocked(busy, q)
    THEN [q |-> q, busy |-> busy, fl |-> fl, st |-> st]
    ELSE LET e == QueuePop(q) IN
         [q |-> e.rest, busy |-> TRUE,
          fl |-> Append(fl, [body |-> StrBody(e.input), status |-> 0]),
          st |-> Append(st, e.input)]

\* ---------------------------------------------------- app.js terminal.onData
\* the debounce of line 334
SuppressedAnyLength(t, last, data) == t - last < INPUT_DEBOUNCE_MS

Suppressed(t, last, data) == t - last < INPUT_DEBOUNCE_MS /\ Len(data) = 1

KeyData(data, dt) ==
    /\ Len(enqueued) < MaxKeys
    /\ now' = now + dt
    /\ IF Suppressed(now', lastInputTime, data)
       THEN UNCHANGED <<inputQueue, isProcessingInput, lastInputTime, inflight,
                        enqueued, sent>>
       ELSE /\ lastInputTime' = now'
            /\ enqueued' = Append(enqueued, data)
            /\ LET q1 == Append(inputQueue, data)
                   r == IF ~isProcessingInput
                        THEN ProcessInputQueue(q1, isProcessingInput, inflight, sent)
                        ELSE [q |-> q1, busy |-> isProcessingInput, fl |-> inflight,
                              st |-> sent]
               IN  /\ inputQueue' = r.q
                   /\ isProcessingInput' = r.busy
                   /\ inflight' = r.fl
                   /\ sent' = r.st
    /\ UNCHANGED <<rafPending, server, page, conn>>

\* history of terminal.onData: the payload of the event of this step, whether
\* line 334 dropped it, and whether the event before it was dropped
KeyEvent(data) ==
    lastKey' = [data |-> data,
                suppressed |-> Suppressed(now', lastInputTime, data),
                afterSuppressed |-> lastKey.suppressed]

\* the animation frame that runs a requestAnimationFrame(processInputQueue)
RafDrain ==
    /\ rafPending > 0
    /\ rafPending' = rafPending - 1
    /\ LET r == ProcessInputQueue(inputQueue, isProcessingInput, inflight, sent) IN
       /\ inputQueue' = r.q
       /\ isProcessingInput' = r.busy
       /\ inflight' = r.fl
       /\ sent' = r.st
    /\ UNCHANGED <<lastInputTime, now, enqueued, lastKey, server, page, conn>>

\* the server handles the i-th request in flight (the network delivers the
\* requests in any order)
ServeInput(i) ==
    /\ inflight[i].status = 0
    /\ LET h == InputHandler(ClientSessionId, inflight[i].body) IN
       /\ procs' = h.procs
       /\ lastResp' = [op |-> "input", id |-> ClientSessionId,
                       body |-> inflight[i].body, status |-> h.status,
                       tick |-> 1 - lastResp.tick]
       /\ inflight' = [inflight EXCEPT ![i].status = h.status]
    /\ UNCHANGED <<terminalSessions, chans, lastResize, inputQueue, isProcessingInput,
                   lastInputTime, now, rafPending, enqueued, sent, lastKey, page, conn>>


\* .finally of line 318
AfterSettleNoFrame(q, raf) == raf

AfterSettle(q, raf) == IF Len(q) > 0 THEN raf + 1 ELSE raf

\* The promise of the i-th request settles: the response arrived (fulfilled on
\* 200, rejected otherwise), or fetch rejected because the request or its
\* response was lost.
SettleInput(i) ==
    /\ inflight' = RemoveAt(inflight, i)
    /\ isProcessingInput' = FALSE
    /\ rafPending' = AfterSettle(inputQueue, rafPending)
    /\ UNCHANGED <<inputQueue, lastInputTime, now, enqueued, sent, lastKey, server, page, conn>>

\* --------------------------------------------------- app.js connectTerminal
MAX_BUFFER_SIZE == 4096

\* the length of the payload of the output frame that carries chunk k
ChunkLen(k) == IF k = 2 THEN MAX_BUFFER_SIZE ELSE 1

RECURSIVE BufferLen(_)
BufferLen(buf) == IF buf = <<>> THEN 0 ELSE ChunkLen(Head(buf)) + BufferLen(Tail(buf))

\* terminal.write of a status text
WriteStatus(text) ==
    /\ termLast' = [msg |-> text, data |-> <<>>, tick |-> 1 - termLast.tick]
    /\ termOut' = termOut

\* terminal.write of the output payloads buf
WriteOutput(buf) ==
    /\ termLast' = [msg |-> "output", data |-> buf, tick |-> 1 - termLast.tick]
    /\ termOut' = termOut \o buf

\* new EventSource(...) and the closure connectTerminal builds around it:
\* readyState, the server response the transport is bound to (NoRes while the
\* request is on its way), the frames of that response already dispatched,
\* writeBuffer, writeTimer (the handle of the last setTimeout, NoTimer for
\* null) and the setTimeout(flushBuffer) calls still pending
NoTimer == 0

NewEs ==
    [readyState |-> "connecting", chan |-> NoRes, delivered |-> 0,
     writeBuffer |-> <<>>, writeTimer |-> NoTimer, timers |-> {}]

\* flushBuffer() of the closure e, but for the animation frame it requests:
\* clearTimeout(writeTimer) and writeTimer = null
FlushBuffer(e) ==
    [e EXCEPT !.timers = @ \ {e.writeTimer}, !.writeTimer = NoTimer]

FlushRafNever(q, i, e) == q

\* the animation frame callbacks after flushBuffer() of closure i, which is
\* e: one more for i when its writeBuffer is not empty
FlushRaf(q, i, e) == IF e.writeBuffer # <<>> THEN Append(q, i) ELSE q

\* a handle setTimeout hands out: one that no pending timer of e has
FreshTimer(e) == CHOOSE n \in 1..(Cardinality(e.timers) + 1) : n \notin e.timers

\* scheduleFlush() of the closure e
ScheduleFlush(e) ==
    IF e.writeTimer # NoTimer THEN e
    ELSE [e EXCEPT !.writeTimer = FreshTimer(e), !.timers = @ \cup {FreshTimer(e)}]

\* eventSource.close(): `eventSource` is the page's global, the EventSource
\* created last
CloseGlobal(ess) == [ess EXCEPT ![Len(ess)].readyState = "closed"]

\* a pending setTimeout(connectTerminal) fires: lines 376-381
ConnectTimerFire ==
    /\ connectTimers > 0
    /\ Len(es) < MaxEs
    /\ connectTimers' = connectTimers - 1
    /\ sessionReady' = FALSE
    /\ es' = Append(es, NewEs)
    /\ UNCHANGED <<termLast, termOut, netErrors, rafQueue, received, server, client, page>>

\* the request of a connecting EventSource reaches the server
EsRequest(e) ==
    /\ es[e].readyState = "connecting"
    /\ es[e].chan = NoRes
    /\ AttachServer(ClientSessionId)
    /\ es' = [es EXCEPT ![e].chan = Len(chans) + 1, ![e].delivered = 0]
    /\ UNCHANGED <<sessionReady, connectTimers, termLast, termOut, netErrors, rafQueue,
                   received, lastResp, lastResize, client, page>>

\* lines 408-412: what onopen leaves in sessionReady
ReadyAfterOpen(ready) == TRUE

\* the response headers arrive: the EventSource opens and onopen runs
EsOpen(e) ==
    /\ es[e].readyState = "connecting"
    /\ es[e].chan # NoRes
    /\ es' = [es EXCEPT ![e].readyState = "open"]
    /\ sessionReady' = ReadyAfterOpen(sessionReady)
    /\ WriteStatus("Terminal connected")
    /\ UNCHANGED <<connectTimers, netErrors, rafQueue, received, server, client, page>>

FlushNowAbove(len) == len > MAX_BUFFER_SIZE

\* line 425: the buffer is large enough to be flushed at once
FlushNow(len) == len >= MAX_BUFFER_SIZE

\* lines 418-430: an output frame with payload d in closure e
OnOutputFrame(e, d) ==
    LET b == [e EXCEPT !.writeBuffer = Append(@, d)]
    IN  IF FlushNow(BufferLen(b.writeBuffer))
        THEN FlushBuffer(b) ELSE ScheduleFlush(b)

\* the animation frame callbacks after that output frame
OnOutputRaf(q, i, e, d) ==
    IF FlushNow(BufferLen(Append(e.writeBuffer, d))) THEN Append(q, i) ELSE q

\* line 442
ReadyAfterExit(ready) == FALSE

\* lines 414-450: onmessage of EventSource i for a frame f the server wrote,
\* run when the EventSource objects are ess
OnMessage(i, f, ess) ==
    CASE f.type = "output" ->
            /\ es' = [ess EXCEPT ![i] = OnOutputFrame(ess[i], f.data)]
            /\ rafQueue' = OnOutputRaf(rafQueue, i, ess[i], f.data)
            /\ received' = Append(received, f.data)
            /\ sessionReady' = TRUE
            /\ UNCHANGED <<termLast, termOut>>
      [] f.type = "connected" ->
            /\ es' = ess
            /\ sessionReady' = TRUE
            /\ WriteStatus("Shell starting")
            /\ UNCHANGED <<rafQueue, received>>
      [] f.type = "error" ->
            /\ es' = [ess EXCEPT ![i] = FlushBuffer(ess[i])]
            /\ rafQueue' = FlushRaf(rafQueue, i, ess[i])
            /\ WriteStatus("error")
            /\ UNCHANGED <<sessionReady, received>>
      [] f.type = "exit" ->
            /\ es' = CloseGlobal([ess EXCEPT ![i] = FlushBuffer(ess[i])])
            /\ rafQueue' = FlushRaf(rafQueue, i, ess[i])
            /\ sessionReady' = ReadyAfterExit(sessionReady)
            /\ WriteStatus("Session ended")
            /\ UNCHANGED received

\* the next frame of the response EventSource e is bound to is dispatched
EsMessage(e) ==
    /\ es[e].readyState = "open"
    /\ es[e].delivered < Len(chans[es[e].chan].frames)
    /\ LET k == es[e].delivered + 1
       IN  OnMessage(e, chans[es[e].chan].frames[k], [es EXCEPT ![e].delivered = k])
    /\ UNCHANGED <<connectTimers, netErrors, server, client, page>>

OnParseErrorCloses(e) == [FlushBuffer(e) EXCEPT !.readyState = "closed"]

\* lines 445-449: the closure e after the catch branch of onmessage
OnParseError(e) == FlushBuffer(e)

\* a message whose data is not JSON is dispatched to EventSource e: the
\* catch branch of lines 445-449
EsGarbage(e) ==
    /\ es[e].readyState = "open"
    /\ netErrors < MaxNetErr
    /\ netErrors' = netErrors + 1
    /\ es' = [es EXCEPT ![e] = OnParseError(es[e])]
    /\ rafQueue' = FlushRaf(rafQueue, e, es[e])
    /\ WriteStatus("Error parsing data")
    /\ UNCHANGED <<sessionReady, connectTimers, received, server, client, page>>

ReadyAfterErrorKept(state, ready) == ready

\* line 459: what onerror leaves in sessionReady, by the readyState of
\* `eventSource`
ReadyAfterError(state, ready) == IF state = "closed" THEN FALSE ELSE ready

ReconnectAfterErrorAlways(state) == TRUE

\* lines 457-462: onerror arms a reconnect only when `eventSource` is closed
ReconnectAfterError(state) == state = "closed"

\* lines 452-464: onerror of the closure of EventSource e, run when the
\* EventSource objects are ess
OnError(e, ess) ==
    LET g == ess[Len(ess)].readyState IN
    /\ es' = [ess EXCEPT ![e] = FlushBuffer(ess[e])]
    /\ rafQueue' = FlushRaf(rafQueue, e, ess[e])
    /\ sessionReady' = ReadyAfterError(g, sessionReady)
    /\ CASE g = "connecting" -> WriteStatus("Connecting")
         [] g = "closed" -> WriteStatus("Connection closed")
         [] OTHER -> UNCHANGED <<termLast, termOut>>
    /\ connectTimers' = IF ReconnectAfterError(g) THEN connectTimers + 1 ELSE connectTimers

\* the transport of EventSource e fails and the browser will retry: the
\* EventSource goes back to connecting and fires error
EsErrorRetry(e) ==
    /\ es[e].readyState # "closed"
    /\ netErrors < MaxNetErr
    /\ netErrors' = netErrors + 1
    /\ OnError(e, [es EXCEPT ![e].readyState = "connecting", ![e].chan = NoRes])
    /\ UNCHANGED <<received, server, client, page>>

\* the transport of EventSource e fails for good: the EventSource closes and
\* fires error
EsErrorFatal(e) ==
    /\ es[e].readyState # "closed"
    /\ netErrors < MaxNetErr
    /\ netErrors' = netErrors + 1
    /\ OnError(e, [es EXCEPT ![e].readyState = "closed"])
    /\ UNCHANGED <<received, server, client, page>>

\* the pending timer t of closure e fires: flushBuffer
FlushTimerFire(e, t) ==
    /\ t \in es[e].timers
    /\ LET c == [es[e] EXCEPT !.timers = @ \ {t}] IN
       /\ es' = [es EXCEPT ![e] = FlushBuffer(c)]
       /\ rafQueue' = FlushRaf(rafQueue, e, c)
    /\ UNCHANGED <<sessionReady, connectTimers, termLast, termOut, netErrors, received,
                   server, client, page>>

RECURSIVE FlushAllRaf(_, _)
FlushAllRaf(q, n) ==
    IF n = 0 THEN q ELSE FlushRaf(FlushAllRaf(q, n - 1), n, es[n])

\* lines 466-474: the page becomes visible or the window gets the focus;
\* every connectTerminal call has added a listener that runs its closure's
\* flushBuffer
FocusFlush ==
    /\ es # <<>>
    /\ Len(rafQueue) < MaxRaf
    /\ es' = [e \in DOMAIN es |-> FlushBuffer(es[e])]
    /\ rafQueue' = FlushAllRaf(rafQueue, Len(es))
    /\ UNCHANGED <<sessionReady, connectTimers, termLast, termOut, netErrors, received,
                   server, client, page>>

AfterRenderKeeps(e) == e

\* line 394: the closure e after the animation frame callback
AfterRender(e) == [e EXCEPT !.writeBuffer = <<>>]

\* the animation frame callback requested first runs: lines 392-395, in the
\* closure that requested it
RenderFrame ==
    /\ rafQueue # <<>>
    /\ LET e == Head(rafQueue) IN
       /\ IF es[e].writeBuffer # <<>>
          THEN WriteOutput(es[e].writeBuffer) ELSE UNCHANGED <<termLast, termOut>>
       /\ es' = [es EXCEPT ![e] = AfterRender(es[e])]
    /\ rafQueue' = Tail(rafQueue)
    /\ UNCHANGED <<sessionReady, connectTimers, netErrors, received, server, client, page>>

\* ------------------------------------------------------------ specification
\* The channel side of the bridge: attach, output, exit, transport close.
Next ==
    \/ \E id \in OpenIds : Attach(id)
    \/ \E p \in DOMAIN procs : OnData(p)
    \/ \E p \in DOMAIN procs, o \in ExitOutcomes : ProcExit(p, o)
    \/ \E p \in DOMAIN procs : OnExit(p)
    \/ \E c \in DOMAIN chans : TransportClose(c)

Spec == Init /\ [][Next]_vars

\* The channel side when a pty reports its exit twice.
NextDupExit ==
    \/ \E id \in OpenIds : Attach(id)
    \/ \E p \in DOMAIN procs : OnData(p)
    \/ \E p \in DOMAIN procs, o \in ExitOutcomes : ProcExitTwice(p, o)
    \/ \E p \in DOMAIN procs : OnExit(p)
    \/ \E c \in DOMAIN chans : TransportClose(c)

SpecDupExit == Init /\ [][NextDupExit]_vars

\* The control side: the input endpoint against sessions that come and go.
NextInput ==
    \/ Len(chans) < MaxQueueChan /\ \E id \in OpenIds : Attach(id)
    \/ \E p \in DOMAIN procs : ProcExit(p, <<0, 0>>)
    \/ \E p \in DOMAIN procs : OnExit(p)
    \/ \E p \in DOMAIN procs : TimerFire(p)
    \/ \E id \in SessionIds, b \in InputBodies : InputReq(id, b)

SpecInput == Init /\ [][NextInput]_vars

\* The input queue of one page against the server's input endpoint.
NextQueue ==
    \/ \E d \in Keys, dt \in DeltaT : KeyData(d, dt) /\ UNCHANGED lastKey
    \/ RafDrain
    \/ \E i \in DOMAIN inflight : ServeInput(i)
    \/ \E i \in DOMAIN inflight : SettleInput(i)
    \/ Len(chans) < MaxQueueChan /\ Attach(ClientSessionId)
    \/ \E p \in DOMAIN procs, o \in ExitOutcomes : ProcExit(p, o)
    \/ \E p \in DOMAIN procs : OnExit(p)

SpecQueue == Init /\ [][NextQueue]_vars

\* The input queue when every request eventually settles and animation frames
\* keep firing: both are single steps of the environment that stay enabled
\* until they are taken.
NextDrain ==
    \/ \E d \in Keys, dt \in DeltaT : KeyData(d, dt) /\ UNCHANGED lastKey
    \/ RafDrain
    \/ \E i \in DOMAIN inflight : ServeInput(i)
    \/ \E i \in DOMAIN inflight : SettleInput(i)
    \/ chans = <<>> /\ Attach(ClientSessionId)
    \/ \E p \in DOMAIN procs : ProcExit(p, <<0, 0>>)
    \/ \E p \in DOMAIN procs : OnExit(p)

SpecDrain ==
    /\ Init /\ [][NextDrain]_vars
    /\ WF_vars(RafDrain)
    /\ WF_vars(\E i \in DOMAIN inflight : SettleInput(i))

\* The page's keyboard: every payload at every pace, against one session.
NextKeys ==
    \/ \E d \in TypedKeys, dt \in DeltaT : KeyData(d, dt) /\ KeyEvent(d)
    \/ RafDrain
    \/ \E i \in DOMAIN inflight : ServeInput(i)
    \/ \E i \in DOMAIN inflight : SettleInput(i)
    \/ Len(chans) < MaxQueueChan /\ Attach(ClientSessionId)

SpecKeys == Init /\ [][NextKeys]_vars

\* The resize endpoint against sessions that come and go.
NextResize ==
    \/ Len(chans) < MaxQueueChan /\ Attach(ClientSessionId)
    \/ \E p \in DOMAIN procs, o \in ExitOutcomes : ProcExit(p, o)
    \/ \E p \in DOMAIN procs : OnExit(p)
    \/ \E id \in SessionIds, b \in ResizeBodies, x \in BOOLEAN :
          ResizeReq(id, b[1], b[2], x)

SpecResize == Init /\ [][NextResize]_vars

\* The page's resizeTerminal against the server's resize endpoint.
NextFit ==
    \/ Len(chans) < MaxQueueChan /\ Attach(ClientSessionId)
    \/ \E p \in DOMAIN procs : ProcExit(p, <<0, 0>>)
    \/ \E p \in DOMAIN procs : OnExit(p)
    \/ \E f \in TermFits : FitResize(f[1], f[2])
    \/ \E i \in DOMAIN resizeInflight : ServeResize(i, TRUE)
    \/ \E i \in DOMAIN resizeInflight : SettleResize(i)

SpecFit == Init /\ [][NextFit]_vars

\* Viewport changes of a page whose session is registered and stays so: the
\* resize requests travel independently and are handled in any order.
NextRace ==
    \/ chans = <<>> /\ Attach(ClientSessionId)
    \/ /\ terminalSessions[ClientSessionId] # NoProc
       /\ \E f \in TermFits : FitResize(f[1], f[2])
    \/ \E i \in DOMAIN resizeInflight : ServeResize(i, TRUE)
    \/ \E i \in DOMAIN resizeInflight : SettleResize(i)

SpecRace == Init /\ [][NextRace]_vars

\* The page from initTerminal on: its two start-up timers, the requests they
\* send, and viewport changes. Everything the page and the network do on
\* their own eventually happens; a viewport change (FitResize) is the user's
\* and need not happen.
NextRetry ==
    \/ ConnectTimerFire
    \/ Len(chans) < MaxQueueChan /\ \E e \in DOMAIN es : EsRequest(e)
    \/ \E e \in DOMAIN es : EsOpen(e)
    \/ \E f \in TermFits : DelayedFit(f[1], f[2])
    \/ \E f \in TermFits : FitResize(f[1], f[2])
    \/ \E i \in DOMAIN resizeInflight : ServeResize(i, TRUE)
    \/ \E i \in DOMAIN resizeInflight : SettleResize(i)

SpecRetry ==
    /\ Init /\ [][NextRetry]_vars
    /\ WF_vars(ConnectTimerFire)
    /\ WF_vars(Len(chans) < MaxQueueChan /\ \E e \in DOMAIN es : EsRequest(e))
    /\ WF_vars(\E e \in DOMAIN es : EsOpen(e))
    /\ WF_vars(\E f \in TermFits : DelayedFit(f[1], f[2]))
    /\ WF_vars(\E i \in DOMAIN resizeInflight : ServeResize(i, TRUE))
    /\ WF_vars(\E i \in DOMAIN resizeInflight : SettleResize(i))

\* no EventSource of the page holds the transport of response c any more
Abandoned(c) == \A e \in DOMAIN es : es[e].chan = c => es[e].readyState = "closed"

\* One page's terminal connection against the server's channel side. The
\* server sees a transport close once the page has let go of it.
NextConn ==
    \/ ConnectTimerFire
    \/ Len(chans) < MaxQueueChan /\ \E e \in DOMAIN es : EsRequest(e)
    \/ \E e \in DOMAIN es : EsOpen(e)
    \/ \E e \in DOMAIN es : EsMessage(e)
    \/ \E e \in DOMAIN es : EsGarbage(e)
    \/ \E e \in DOMAIN es : EsErrorRetry(e)
    \/ \E e \in DOMAIN es : EsErrorFatal(e)
    \/ \E e \in DOMAIN es : \E t \in es[e].timers : FlushTimerFire(e, t)
    \/ RenderFrame
    \/ \E p \in DOMAIN procs : OnData(p)
    \/ \E p \in DOMAIN procs : ProcExit(p, <<0, 0>>)
    \/ \E p \in DOMAIN procs : OnExit(p)
    \/ \E c \in DOMAIN chans : Abandoned(c) /\ TransportClose(c)

SpecConn == Init /\ [][NextConn]_vars

\* The output path of one page: frames arrive, are buffered, flushed by the
\* timer, by the size threshold or by a focus or visibility event, and are
\* rendered in animation frames; a channel that fails for good is replaced.
NextBatch ==
    \/ ConnectTimerFire
    \/ Len(chans) < MaxQueueChan /\ \E e \in DOMAIN es : EsRequest(e)
    \/ \E e \in DOMAIN es : EsOpen(e)
    \/ \E e \in DOMAIN es : EsMessage(e)
    \/ \E e \in DOMAIN es : EsErrorFatal(e)
    \/ \E e \in DOMAIN es : \E t \in es[e].timers : FlushTimerFire(e, t)
    \/ FocusFlush
    \/ RenderFrame
    \/ \E p \in DOMAIN procs : OnData(p)
    \/ \E c \in DOMAIN chans : Abandoned(c) /\ TransportClose(c)

SpecBatch == Init /\ [][NextBatch]_vars

\* The same when pending timers and requested animation frames eventually
\* fire.
SpecFlush ==
    /\ Init /\ [][NextBatch]_vars
    /\ WF_vars(\E e \in DOMAIN es : \E t \in es[e].timers : FlushTimerFire(e, t))
    /\ WF_vars(RenderFrame)

\* Attach requests for two session ids, some of which fail to spawn.
NextSpawn ==
    \/ \E id \in SessionIds : Attach(id)
    \/ \E id \in SessionIds : AttachSpawnFails(id)
    \/ \E p \in DOMAIN procs : ProcExit(p, <<0, 0>>)
    \/ \E p \in DOMAIN procs : OnExit(p)
    \/ \E c \in DOMAIN chans : TransportClose(c)

SpecSpawn == Init /\ [][NextSpawn]_vars

\* the channels opened for session id
ChansOfId(id) == {c \in DOMAIN chans : chans[c].id = id}

\* Two session ids side by side: every endpoint and every callback of the
\* server, for either id. The requests are those that reach a registered
\* session, and the resizes those that change its geometry; each id is
\* attached once.
NextPair ==
    \/ \E id \in SessionIds : ChansOfId(id) = {} /\ Attach(id)
    \/ \E p \in DOMAIN procs : OnData(p)
    \/ \E p \in DOMAIN procs : ProcExit(p, <<0, 0>>)
    \/ \E p \in DOMAIN procs : OnExit(p)
    \/ \E c \in DOMAIN chans : TransportClose(c)
    \/ \E id \in SessionIds :
          /\ terminalSessions[id] # NoProc
          /\ InputReq(id, StrBody(<<"a">>))
    \/ \E id \in SessionIds :
          /\ terminalSessions[id] # NoProc
          /\ procs[terminalSessions[id]].cols = DefaultCols
          /\ ResizeReq(id, IntDim(120), IntDim(40), TRUE)

SpecPair == Init /\ [][NextPair]_vars

\* =================================================================== claims
SetMax(S) == CHOOSE x \in S : \A y \in S : y <= x

\* the channels bound to session object p
ChansOf(p) == {c \in DOMAIN chans : chans[c].session = p}

\* the currently attached sink of session p: the most recently attached
\* channel whose transport is still open
CurrentSink(p) ==
    LET S == {c \in ChansOf(p) : ~chans[c].destroyed}
    IN  IF S = {} THEN NoRes ELSE SetMax(S)

\* steps, recognised by what they change
AttachStepFor(id) == Len(chans') = Len(chans) + 1 /\ chans'[Len(chans')].id = id
OnDataStep(p) == procs'[p].emitted = procs[p].emitted + 1
OnExitStep(p) == procs'[p].exitNotifs = procs[p].exitNotifs - 1
CloseStep(c) == ~chans[c].destroyed /\ chans'[c].destroyed

\* ---- C1
\* C1: a channel open for a registered id spawns no process and leaves the
\* registered session on the same pty; a channel open for an unregistered id
\* spawns exactly one process and registers it.
C1_AttachIdempotent ==
    [][\A id \in SessionIds : AttachStepFor(id) =>
          IF terminalSessions[id] # NoProc
          THEN /\ Len(procs') = Len(procs)
               /\ terminalSessions'[id] = terminalSessions[id]
               /\ procs'[terminalSessions[id]].state = procs[terminalSessions[id]].state
          ELSE /\ Len(procs') = Len(procs) + 1
               /\ terminalSessions'[id] = Len(procs')]_vars

\* two further channel opens on one registered session, one process in all
C1_Witness ==
    \E p \in DOMAIN procs :
        /\ Cardinality(ChansOf(p)) >= 3
        /\ terminalSessions[procs[p].id] = p
        /\ Cardinality({q \in DOMAIN procs : procs[q].id = procs[p].id}) = 1

\* ---- C2
\* C2: a transport close changes nothing but the destroyed flag of its
\* response and the sink reference of the session it was attached to: the
\* registry and every pty stay as they were; and an id leaves the registry
\* only in a step that handles the exit notification of the pty registered
\* for that id.
C2_DetachKeepsSession ==
    [][/\ \A c \in DOMAIN chans : CloseStep(c) =>
             /\ terminalSessions' = terminalSessions
             /\ \A p \in DOMAIN procs :
                   /\ procs'[p].state = procs[p].state
                   /\ procs'[p].exitNotifs = procs[p].exitNotifs
                   /\ procs'[p].sres # procs[p].sres =>
                         p = chans[c].session /\ procs'[p].sres = NoRes
       /\ \A id \in SessionIds :
             terminalSessions[id] # NoProc /\ terminalSessions'[id] # terminalSessions[id] =>
                 /\ terminalSessions'[id] = NoProc
                 /\ procs[terminalSessions[id]].state = "exited"
                 /\ OnExitStep(terminalSessions[id])]_vars

\* a session whose every channel has closed is still registered and running
C2_Witness ==
    \E p \in DOMAIN procs :
        /\ terminalSessions[procs[p].id] = p
        /\ procs[p].state = "running"
        /\ procs[p].sres = NoRes
        /\ ChansOf(p) # {}
        /\ \A c \in ChansOf(p) : chans[c].destroyed

\* ---- C3
OutputData(fs) == SelectSeq(fs, LAMBDA f : f.type = "output")
Increasing(fs) == \A i, j \in DOMAIN fs : i < j => fs[i].data < fs[j].data

\* C3: every chunk a pty emits while its session has a currently attached
\* sink is appended to that sink as one output frame, and the output frames of
\* every sink carry strictly increasing chunk numbers (emission order, no
\* duplicate).
C3_AttachedSinkGetsEveryChunk ==
    /\ [](\A c \in DOMAIN chans : Increasing(OutputData(chans[c].frames)))
    /\ [][\A p \in DOMAIN procs :
             OnDataStep(p) /\ CurrentSink(p) # NoRes =>
                 chans'[CurrentSink(p)].frames =
                     Append(chans[CurrentSink(p)].frames, OutputFrame(procs'[p].emitted))]_vars

\* ---- C4
\* c was attached to session p and a later channel has attached to p since
Superseded(c) == \E d \in ChansOf(chans[c].session) : d > c

\* C4: no output frame is written to a sink that a later attach superseded.
C4_NoOutputToSupersededSink ==
    [][\A c \in DOMAIN chans :
          Superseded(c) /\ (\E p \in DOMAIN procs : OnDataStep(p)) =>
              chans'[c].frames = chans[c].frames]_vars

\* ---- C5
\* The sequential reconnect on id: the latest channel n for id is open, at
\* least one earlier channel for id exists, every earlier channel for id had
\* closed before n was opened, and the pty the previous channel was attached
\* to is still running.
PrevChan(id) == SetMax(ChansOfId(id) \ {SetMax(ChansOfId(id))})
SequentialReconnect(id) ==
    /\ Cardinality(ChansOfId(id)) >= 2
    /\ LET n == SetMax(ChansOfId(id)) IN
       /\ ~chans[n].destroyed
       /\ \A c \in ChansOfId(id) \ {n} : chans[c].destroyed /\ chans[c].closedAt < n
       /\ procs[chans[PrevChan(id)].session].state = "running"

\* C5: after a sequential reconnect the new channel is attached to the pty
\* that was running before the disconnect, and every chunk that pty emits is
\* appended to the new channel as one output frame.
C5_SequentialReconnect ==
    [][\A id \in SessionIds : SequentialReconnect(id) =>
          LET n == SetMax(ChansOfId(id))
              p == chans[PrevChan(id)].session
          IN  /\ chans[n].session = p
              /\ terminalSessions[id] = p
              /\ OnDataStep(p) =>
                    chans'[n].frames = Append(chans[n].frames, OutputFrame(procs'[p].emitted))]_vars

\* a reattached channel has received output of the pty its predecessor created
C5_Witness ==
    \E id \in SessionIds :
        /\ SequentialReconnect(id)
        /\ LET n == SetMax(ChansOfId(id)) IN
           /\ procs[chans[n].session].res # n
           /\ Len(OutputData(chans[n].frames)) >= 1

\* ---- C6
\* C6: when the exit notification of a pty is handled while the session has a
\* currently attached sink, that sink's last frame becomes the exit frame with
\* the pty's exit code and signal, the sink is ended, and the id is removed
\* from the registry.
C6_ExitReachesAttachedSink ==
    [][\A p \in DOMAIN procs :
          OnExitStep(p) /\ procs[p].state = "exited" /\ CurrentSink(p) # NoRes =>
              LET c == CurrentSink(p) IN
              /\ chans'[c].frames[Len(chans'[c].frames)] =
                     ExitFrame(procs[p].exit[1], procs[p].exit[2])
              /\ chans'[c].ended
              /\ terminalSessions'[procs[p].id] = NoProc]_vars

\* ---- C7
ExitFrames(fs) == SelectSeq(fs, LAMBDA f : f.type = "exit")

\* C7: no sink ever holds more than one exit frame, no write is attempted on
\* an ended sink, and the second exit notification of a pty changes neither the
\* registry nor any sink.
C7_DestroyIdempotent ==
    /\ [](\A c \in DOMAIN chans :
             Len(ExitFrames(chans[c].frames)) <= 1 /\ chans[c].lateWrites = 0)
    /\ [][\A p \in DOMAIN procs :
             OnExitStep(p) /\ procs[p].state = "notified" =>
                 terminalSessions' = terminalSessions /\ chans' = chans]_vars

\* ---- C8
\* C8: at most one input request of the page is unsettled at any time.
C8_OneInputInFlight == Len(inflight) <= 1

\* a request is in flight while a keystroke waits in the queue and a drain
\* resume is pending
C8_Witness ==
    /\ Len(inflight) = 1
    /\ inputQueue # <<>>
    /\ rafPending > 0

\* ---- C9
RECURSIVE IsSubseq(_, _)
IsSubseq(a, b) ==
    IF a = <<>> THEN TRUE
    ELSE IF b = <<>> THEN FALSE
    ELSE IF Head(a) = Head(b) THEN IsSubseq(Tail(a), Tail(b))
    ELSE IsSubseq(a, Tail(b))

\* the strings the input endpoint wrote to pty p, in order
InputsWritten(p) ==
    LET w == SelectSeq(procs[p].written, LAMBDA e : e.src = "input")
    IN  [i \in DOMAIN w |-> w[i].body.str]

\* the same over the ptys 1..n; the ptys of one id follow one another in time
RECURSIVE InputLog(_)
InputLog(n) == IF n = 0 THEN <<>> ELSE InputLog(n - 1) \o InputsWritten(n)

\* C9: the requests are issued in enqueue order (what has been sent, followed
\* by what still waits, is what was enqueued), and what the input endpoint
\* wrote to the process is a subsequence of what was sent.
C9_KeystrokeOrder ==
    /\ sent \o inputQueue = enqueued
    /\ IsSubseq(InputLog(Len(procs)), sent)

\* three keystrokes were enqueued, two different payloads have been written to
\* the process, and a drain resume scheduled with a waiting keystroke is pending
C9_Witness ==
    /\ Len(enqueued) = 3
    /\ rafPending > 0
    /\ Len(InputLog(Len(procs))) >= 2
    /\ InputLog(Len(procs))[1] # InputLog(Len(procs))[2]

\* ---- C10
\* C10: the input endpoint answers 400 exactly when the body has no input
\* string; a request with an input string for a registered session appends
\* that string once to the writes of the session's pty and is answered 200.
C10_InputForwarded ==
    /\ [](lastResp.op = "input" =>
             (lastResp.status = 400 <=> lastResp.body.kind # "string"))
    /\ [][lastResp'.op = "input" /\ <<procs, lastResp>>' # <<procs, lastResp>>
             /\ lastResp'.body.kind = "string"
             /\ terminalSessions[lastResp'.id] # NoProc =>
                 LET p == terminalSessions[lastResp'.id] IN
                 /\ lastResp'.status = 200
                 /\ procs'[p].written =
                        Append(procs[p].written, [src |-> "input", body |-> lastResp'.body])]_vars

\* ---- C11
\* a response of the input endpoint is sent in this step (tick alternates)
InputStep == lastResp'.tick # lastResp.tick /\ lastResp'.op = "input"

\* the body carries an input the endpoint takes as present: a non-empty
\* string or a non-zero number
PresentInput(b) == b = NumBody(7) \/ (b.kind = "string" /\ b.str # <<>>)

ResizeStep == lastResize'.tick # lastResize.tick
Geometry(p) == <<procs[p].cols, procs[p].rows>>

\* C12: a resize request {cols: c, rows: r} with positive integers c and r for
\* a registered session is answered with success and leaves that session's
\* pty at exactly c x r; a pty starts at 80 x 24 and its geometry is changed
\* by no step other than a resize request for the id it is registered under.
C12_ResizeSetsGeometry ==
    [][/\ (ResizeStep /\ terminalSessions[lastResize'.id] # NoProc
              /\ ValidDim(lastResize'.cols) /\ ValidDim(lastResize'.rows)) =>
                  /\ lastResize'.status = 200
                  /\ procs'[terminalSessions[lastResize'.id]].cols = lastResize'.cols
                  /\ procs'[terminalSessions[lastResize'.id]].rows = lastResize'.rows
       /\ \A p \in DOMAIN procs' :
             IF p \in DOMAIN procs
             THEN (procs'[p].cols # procs[p].cols \/ procs'[p].rows # procs[p].rows) =>
                      ResizeStep /\ terminalSessions[lastResize'.id] = p
             ELSE procs'[p].cols = DefaultCols /\ procs'[p].rows = DefaultRows]_vars

C12_Witness ==
    /\ lastResize.status = 200
    /\ lastResize.cols = IntDim(100) /\ lastResize.rows = IntDim(30)
    /\ terminalSessions[lastResize.id] # NoProc
    /\ Geometry(terminalSessions[lastResize.id]) = <<IntDim(100), IntDim(30)>>
    /\ \E p \in DOMAIN procs : Geometry(p) = <<IntDim(120), IntDim(40)>>

\* ---- C13
\* C13: pty.resize is invoked only with cols >= 1 and rows >= 1, whatever the
\* body of the resize request carries, and every resize request the page
\* sends carries cols >= 1 and rows >= 1.
C13_ResizeValidated ==
    /\ lastResize.called => ValidDim(lastResize.cols) /\ ValidDim(lastResize.rows)
    /\ \A i \in DOMAIN resizeInflight :
          ValidDim(resizeInflight[i].cols) /\ ValidDim(resizeInflight[i].rows)

\* ---- C14
ResizeSettle404 ==
    \E i \in DOMAIN resizeInflight :
        /\ resizeInflight[i].status = 404
        /\ resizeInflight' = RemoveAt(resizeInflight, i)

\* C14: a resize request for an unregistered session id is answered 404 and
\* no other answer of the endpoint is 404; it spawns nothing and leaves the
\* registry as it was. When the 404 reaches the page nothing is logged and
\* nothing but the finished request changes, and a resize the page sends once
\* the session is registered is answered with success.
C14_ResizeUnknownSession ==
    [][/\ ResizeStep =>
             /\ (lastResize'.status = 404) <=> (terminalSessions[lastResize'.id] = NoProc)
             /\ lastResize'.status = 404 =>
                   /\ procs' = procs
                   /\ terminalSessions' = terminalSessions
                   /\ chans' = chans
             /\ (terminalSessions[lastResize'.id] # NoProc
                   /\ ValidDim(lastResize'.cols) /\ ValidDim(lastResize'.rows)) =>
                      lastResize'.status = 200
       /\ ResizeSettle404 =>
             /\ resizeErrors' = resizeErrors
             /\ termDims' = termDims
             /\ UNCHANGED <<server, client, conn>>]_vars

\* a request answered 404 and a later one answered with success, both still
\* to be settled by the page, and nothing logged
C14_Witness ==
    /\ Len(resizeInflight) = 2
    /\ resizeInflight[1].status = 404
    /\ resizeInflight[2].status = 200
    /\ resizeErrors = 0
    /\ lastResize.status = 200

\* ---- C15
\* C15: on every attach the first frame written to the new response is
\* `connected`, so no output or exit frame precedes it, and it is the only
\* `connected` frame the response ever gets.
C15_ConnectedFirst ==
    \A c \in DOMAIN chans :
        /\ chans[c].frames # <<>>
        /\ chans[c].frames[1] = ConnectedFrame
        /\ \A i \in 2..Len(chans[c].frames) : chans[c].frames[i].type # "connected"

\* a reattached response that went on to carry output
C15_Witness ==
    \E c \in DOMAIN chans :
        /\ procs[chans[c].session].res # c
        /\ Len(chans[c].frames) >= 2
        /\ chans[c].frames[2].type = "output"

\* ---- C16
NoSinkFor(p) == chans[procs[p].res].destroyed /\ procs[p].sres = NoRes

\* C16: a chunk emitted while the creating response is destroyed and the
\* session's sink reference is cleared is written to no response, and leaves
\* the registry and the pty as they were; and a response only ever gains an
\* output frame in the step that emits its chunk, so a dropped chunk reaches
\* no response that attaches later.
C16_OutputDroppedNotBuffered ==
    [][/\ \A p \in DOMAIN procs :
             (OnDataStep(p) /\ NoSinkFor(p)) =>
                 /\ chans' = chans
                 /\ terminalSessions' = terminalSessions
                 /\ procs' = [procs EXCEPT ![p].emitted = @ + 1]
       /\ \A c \in DOMAIN chans' :
             LET old == IF c \in DOMAIN chans THEN chans[c].frames ELSE <<ConnectedFrame>>
                 new == chans'[c].frames
             IN  \/ new = old
                 \/ /\ Len(new) = Len(old) + 1
                    /\ SubSeq(new, 1, Len(old)) = old
                    /\ new[Len(new)].type = "output" =>
                          \E p \in DOMAIN procs :
                              /\ OnDataStep(p)
                              /\ new[Len(new)].data = procs'[p].emitted]_vars

\* a chunk was dropped and a response attached afterwards carries no output
C16_Witness ==
    \E p \in DOMAIN procs :
        /\ procs[p].emitted >= 1
        /\ procs[p].sres # NoRes
        /\ procs[p].sres # procs[p].res
        /\ ~chans[procs[p].sres].destroyed
        /\ \A c \in DOMAIN chans : OutputData(chans[c].frames) = <<>>

\* ---- C17
ProcsOfId(id) == {p \in DOMAIN procs : procs[p].id = id}

\* C17 as stated: no more than one pty is ever spawned for one session id.
C17_SpawnedOnce ==
    \A id \in SessionIds : Cardinality(ProcsOfId(id)) <= 1

\* C17, amended: a pty whose exit has not been handled yet is the one its id
\* is registered to, so an id has at most one such pty at a time; a further
\* pty is spawned for an id only by an attach that finds the id unregistered.
C17_OneProcessPerSession ==
    [][/\ \A p \in DOMAIN procs' :
             procs'[p].state # "notified" => terminalSessions'[procs'[p].id] = p
       /\ Len(procs') > Len(procs) =>
             /\ Len(procs') = Len(procs) + 1
             /\ AttachStepFor(procs'[Len(procs')].id)
             /\ terminalSessions[procs'[Len(procs')].id] = NoProc]_vars

\* a second pty for an id, spawned after the first one's exit was handled
C17_Witness ==
    \E p, q \in DOMAIN procs :
        /\ p < q
        /\ procs[p].id = procs[q].id
        /\ procs[p].state = "notified"
        /\ procs[q].state = "running"
        /\ terminalSessions[procs[q].id] = q

\* ---- C18
\* `eventSource`, the EventSource the page created last, is closed
GlobalClosed == es # <<>> /\ es[Len(es)].readyState = "closed"

\* C18: whenever the page's channel is closed, by an exit frame or by a
\* transport error in the closed state, a call of connectTerminal is pending
\* that will open a new channel; and every channel is opened for the session
\* id minted at page load.
C18_ReconnectsAfterClosure ==
    /\ GlobalClosed => connectTimers > 0
    /\ \A c \in DOMAIN chans : chans[c].id = ClientSessionId

\* ---- C19
\* the step dispatches a frame of one of the kinds in types to EventSource e
FrameDispatch(e, types) ==
    /\ es[e].readyState = "open"
    /\ e \in DOMAIN es'
    /\ es'[e].delivered = es[e].delivered + 1
    /\ es'[e].chan = es[e].chan
    /\ chans[es[e].chan].frames[es'[e].delivered].type \in types

\* C19: after connectTerminal has reset it, sessionReady becomes true only in
\* a step that dispatches a connected or an output frame to the current
\* EventSource; the open event leaves it as it is.
C19_ReadyOnlyOnFrame ==
    [][(~sessionReady /\ sessionReady') =>
          FrameDispatch(Len(es), {"connected", "output"})]_vars

\* ---- C20
ExitDispatch == \E e \in DOMAIN es : FrameDispatch(e, {"exit"})

\* an EventSource closes without an exit frame having been dispatched: its
\* transport failed for good
FatalErrorStep ==
    /\ ~ExitDispatch
    /\ \E e \in DOMAIN es : es[e].readyState # "closed" /\ es'[e].readyState = "closed"

\* C20: the dispatch of an exit frame writes '[Session ended]' and leaves
\* sessionReady false; a transport error that leaves `eventSource` closed
\* writes '[Connection closed. Reconnecting...]' and leaves sessionReady
\* false; a closed EventSource never opens again and sessionReady is false
\* for as long as `eventSource` is closed, so it only becomes true again on
\* an EventSource created later.
C20_ClosedNotReady ==
    [][/\ ExitDispatch =>
             /\ termLast'.msg = "Session ended"
             /\ termLast'.tick # termLast.tick
             /\ ~sessionReady'
       /\ (FatalErrorStep /\ es'[Len(es')].readyState = "closed") =>
             /\ termLast'.msg = "Connection closed"
             /\ termLast'.tick # termLast.tick
             /\ ~sessionReady'
       /\ \A e \in DOMAIN es :
             es[e].readyState = "closed" => es'[e].readyState = "closed"
       /\ (es' # <<>> /\ es'[Len(es')].readyState = "closed") => ~sessionReady']_vars

\* a channel was closed by a transport error, the page opened another one
\* and that one was closed by an exit frame
C20_Witness ==
    /\ GlobalClosed
    /\ ~sessionReady
    /\ termLast.msg = "Session ended"
    /\ Len(es) = 2
    /\ es[1].delivered = 0

\* ---- C21
\* the step runs the catch branch of onmessage in the closure of EventSource e
ParseErrorStep(e) ==
    /\ netErrors' = netErrors + 1
    /\ termLast'.msg = "Error parsing data"
    /\ \A d \in DOMAIN es \ {e} : es'[d] = es[d]

\* C21: a message that cannot be parsed leaves the EventSource open and bound
\* to the same response with the same frames still to dispatch, arms no
\* reconnect, creates no EventSource, leaves sessionReady as it was and keeps
\* the buffered output, for which an animation frame is then pending.
C21_MalformedFrameSwallowed ==
    [][\A e \in DOMAIN es :
          (es[e].readyState = "open" /\ ParseErrorStep(e)) =>
              /\ es'[e].readyState = "open"
              /\ es'[e].chan = es[e].chan
              /\ es'[e].delivered = es[e].delivered
              /\ Len(es') = Len(es)
              /\ connectTimers' = connectTimers
              /\ sessionReady' = sessionReady
              /\ es'[e].writeBuffer = es[e].writeBuffer
              /\ received' = received
              /\ termOut' = termOut
              /\ es[e].writeBuffer # <<>> =>
                    \E k \in DOMAIN rafQueue' : rafQueue'[k] = e]_vars

\* an unparsable message was handled while output was buffered, and the
\* EventSource still has a frame of its response to dispatch
C21_Witness ==
    /\ termLast.msg = "Error parsing data"
    /\ sessionReady
    /\ \E e \in DOMAIN es :
          /\ es[e].readyState = "open"
          /\ es[e].writeBuffer # <<>>
          /\ es[e].delivered < Len(chans[es[e].chan].frames)

\* ---- C22
\* the step handles an attach for id in which pty.spawn throws
SpawnFailStep(id) == AttachStepFor(id) /\ chans'[Len(chans')].session = NoProc

\* C22: when pty.spawn throws in an attach for id, the registry is left as it
\* was, so id gets no entry, and no pty and no earlier response changes;
\* and every attach for an unregistered id, one after a failure included,
\* takes the spawning branch again: it either fails too or registers a new
\* pty for the id.
C22_SpawnFailureConfined ==
    [][\A id \in SessionIds :
          /\ SpawnFailStep(id) =>
                /\ terminalSessions' = terminalSessions
                /\ terminalSessions'[id] = NoProc
                /\ procs' = procs
                /\ SubSeq(chans', 1, Len(chans)) = chans
          /\ (AttachStepFor(id) /\ terminalSessions[id] = NoProc /\ ~SpawnFailStep(id)) =>
                /\ Len(procs') = Len(procs) + 1
                /\ procs'[Len(procs')].id = id
                /\ terminalSessions'[id] = Len(procs')]_vars

\* a spawn failed for one id while the other id had a running session, and a
\* later attach for the first id spawned its pty
C22_Witness ==
    \E c, d \in DOMAIN chans :
        /\ c < d
        /\ chans[c].id = chans[d].id
        /\ chans[c].session = NoProc
        /\ chans[d].session # NoProc
        /\ terminalSessions[chans[d].id] = chans[d].session
        /\ \E p \in DOMAIN procs :
              /\ procs[p].id # chans[c].id
              /\ p < chans[d].session
              /\ procs[p].state = "running"
              /\ terminalSessions[procs[p].id] = p

\* ---- C23
\* the ptys spawned for id whose exit notification has not been handled
Unhandled(id) == {p \in ProcsOfId(id) : procs[p].state # "notified"}

\* C23: the registry maps an id to at most one session, an id is registered
\* exactly when a pty was spawned for it whose exit notification has not been
\* handled yet, the entry is that pty, and there is no second such pty.
C23_RegistryConsistent ==
    \A id \in SessionIds :
        /\ terminalSessions[id] # NoProc <=> Unhandled(id) # {}
        /\ Unhandled(id) \subseteq {terminalSessions[id]}

\* attach, transport close and exit notification have interleaved for one id:
\* its first pty is gone, its second is registered, and a response of each
\* has been closed
C23_Witness ==
    \E p, q \in DOMAIN procs :
        /\ procs[p].id = procs[q].id
        /\ procs[p].state = "notified"
        /\ procs[q].state = "exited"
        /\ \E c \in ChansOf(p) : chans[c].destroyed
        /\ \E c \in ChansOf(q) : chans[c].destroyed

\* ---- C24
\* the step runs onerror while `eventSource` reports the connecting state
ErrorWhileConnecting ==
    /\ netErrors' = netErrors + 1
    /\ termLast'.msg # "Error parsing data"
    /\ es'[Len(es')].readyState = "connecting"

\* C24: onerror with `eventSource` in the connecting state writes
\* '[Connecting...]' and no more: no call of connectTerminal is armed, no
\* EventSource is created, no request reaches the server, and sessionReady,
\* every writeBuffer and the output already rendered stay as they were.
C24_ErrorWhileConnectingInformational ==
    [][ErrorWhileConnecting =>
          /\ termLast'.msg = "Connecting"
          /\ connectTimers' = connectTimers
          /\ Len(es') = Len(es)
          /\ chans' = chans
          /\ sessionReady' = sessionReady
          /\ \A e \in DOMAIN es : es'[e].writeBuffer = es[e].writeBuffer
          /\ termOut' = termOut
          /\ received' = received]_vars

\* the error arrived on a ready connection with output in the buffer
C24_Witness ==
    /\ termLast.msg = "Connecting"
    /\ sessionReady
    /\ connectTimers = 0
    /\ es[Len(es)].readyState = "connecting"
    /\ es[Len(es)].writeBuffer # <<>>
    /\ rafQueue # <<>>

\* ---- C25
\* the step hands an output frame to onmessage of EventSource e
OutputStep(e) ==
    /\ Len(received') = Len(received) + 1
    /\ es'[e].delivered = es[e].delivered + 1

\* the flush timers pending on the page, over all closures
RECURSIVE PendingTimers(_)
PendingTimers(n) ==
    IF n = 0 THEN 0 ELSE Cardinality(es[n].timers) + PendingTimers(n - 1)

\* after the step: at most one flush timer is pending, the one writeTimer
\* holds; and if an output frame was handled, then with flushed(len) for the
\* new buffer length a flush was requested and no timer is left, and
\* otherwise a timer is pending
BatchingPolicy(flushed(_)) ==
    /\ \A e \in DOMAIN es' :
          /\ Cardinality(es'[e].timers) <= 1
          /\ es'[e].timers = {es'[e].writeTimer} \ {NoTimer}
    /\ \A e \in DOMAIN es :
          OutputStep(e) =>
              IF flushed(BufferLen(es'[e].writeBuffer))
              THEN /\ es'[e].timers = {}
                   /\ rafQueue' = Append(rafQueue, e)
              ELSE /\ es'[e].timers # {}
                   /\ rafQueue' = rafQueue

OverThreshold(len) == len > MAX_BUFFER_SIZE
AtThreshold(len) == len >= MAX_BUFFER_SIZE

\* C25 as stated: the immediate flush is for a buffer over 4096, and a buffer
\* that is not over 4096 gets the timer.
C25_BatchingPolicy == [][BatchingPolicy(OverThreshold)]_vars

\* C25, amended: the immediate flush is for a buffer of 4096 or more, and a
\* shorter buffer gets the timer; the page as a whole never has more than one
\* flush timer pending.
C25_BatchingPolicyAtThreshold ==
    [][BatchingPolicy(AtThreshold) /\ PendingTimers(Len(es)) <= 1]_vars

\* a second payload took the buffer to the threshold while the timer of the
\* first was pending: the timer is gone and an animation frame is requested
C25_Witness ==
    \E e \in DOMAIN es :
        /\ es[e].writeBuffer = <<1, 2>>
        /\ es[e].timers = {}
        /\ es[e].writeTimer = NoTimer
        /\ rafQueue = <<e>>

\* ---- C26
\* the payloads still in the writeBuffers of closures 1..n, oldest closure
\* first
RECURSIVE Buffered(_)
Buffered(n) == IF n = 0 THEN <<>> ELSE Buffered(n - 1) \o es[n].writeBuffer

\* C26: the output written to the terminal, followed by what the closures
\* still hold in their buffers, is the sequence of payloads received, in the
\* order of arrival: what is rendered is a prefix of what was received, with
\* nothing rendered twice, left out or out of order, however timer expiries,
\* forced flushes and animation frames interleave.
C26_RenderedIsPrefixOfReceived ==
    /\ Len(termOut) <= Len(received)
    /\ termOut = SubSeq(received, 1, Len(termOut))
    /\ received = termOut \o Buffered(Len(es))

\* both payloads are rendered, by different animation frames, and a further
\* animation frame requested meanwhile is still pending
C26_Witness ==
    /\ received = <<1, 2>>
    /\ termOut = <<1, 2>>
    /\ termLast.data = <<2>>
    /\ rafQueue # <<>>

\* ---------------------------------------------------------------------- C27
\* a step of terminal.onData: the page's clock, the latest event or the
\* history of accepted payloads changes in no other step
KeyStep == <<now, lastKey, enqueued>>' # <<now, lastKey, enqueued>>

\* the event of this step repeats the event before it within the window
DuplicateInWindow ==
    /\ lastKey'.data = lastKey.data
    /\ now' - now < INPUT_DEBOUNCE_MS

\* C27: a single-character input is suppressed only when it is a duplicate of
\* its immediate predecessor and arrives within the debounce window (5 ms)
\* after it; a single-character input that differs from its predecessor, or
\* that arrives after the window, is always enqueued.
C27_DebounceOnlyDuplicates ==
    [][KeyStep /\ Len(lastKey'.data) = 1 =>
          /\ lastKey'.suppressed => DuplicateInWindow
          /\ ~DuplicateInWindow => enqueued' = Append(enqueued, lastKey'.data)]_vars

\* ---------------------------------------------------------------------- C28
\* C28: every input of length greater than one is appended to the input
\* queue, however soon it arrives after the previous input and whether or not
\* the previous input was suppressed. (The drain may already have popped it
\* in the same call, then it is the payload of the latest request.)
C28_MultiCharNeverSuppressed ==
    [][KeyStep /\ Len(lastKey'.data) > 1 =>
          /\ ~lastKey'.suppressed
          /\ enqueued' = Append(enqueued, lastKey'.data)
          /\ sent' \o inputQueue' = Append(sent \o inputQueue, lastKey'.data)]_vars

\* a pasted payload was accepted in the very millisecond of an accepted input
\* and right after a suppressed keystroke
C28_Witness ==
    /\ Len(lastKey.data) > 1
    /\ lastKey.afterSuppressed
    /\ now = PageLoadTime
    /\ lastInputTime = now
    /\ Len(enqueued) >= 2
    /\ enqueued[Len(enqueued)] = lastKey.data
    /\ Len(enqueued[Len(enqueued) - 1]) = 1

\* ---------------------------------------------------------------------- C29
\* C29: when every input request eventually settles and animation frames keep
\* firing, every entry accepted into the input queue is eventually popped and
\* submitted, in exactly one request (the submitted payloads followed by the
\* waiting ones are always the accepted ones, so none is sent twice or
\* skipped), whether the requests before it succeeded or failed; and the
\* in-flight flag never stays set.
C29_DrainMakesProgress ==
    /\ [](sent \o inputQueue = enqueued)
    /\ \A n \in 1..MaxKeys : (Len(enqueued) >= n) ~> (Len(sent) >= n)
    /\ isProcessingInput ~> ~isProcessingInput

\* the first request was answered 404 (no such session) and has settled, and
\* the entry behind it is now in flight
C29_Witness ==
    /\ Len(sent) = 2
    /\ lastResp.op = "input" /\ lastResp.status = 404
    /\ lastResp.body = StrBody(sent[1])
    /\ Len(inflight) = 1
    /\ inflight[1] = [body |-> StrBody(sent[2]), status |-> 0]
    /\ sent[1] # sent[2]

\* ---------------------------------------------------------------------- C30
\* the texts onmessage writes after calling flushBuffer
StatusTexts == {"error", "Session ended", "Error parsing data"}

\* a step in which onmessage writes one of them
StatusStep ==
    /\ termLast' # termLast
    /\ termLast'.msg \in StatusTexts

\* C30: when an `exit` frame, an `error` frame or an unparsable frame is
\* handled, every output payload received before it has been written to the
\* terminal before the status text is.
C30_PendingOutputFlushedFirst ==
    [][StatusStep => termOut' = received']_vars

\* ---------------------------------------------------------------------- C31
\* the latest resize of the page was answered not-found and the session
\* exists by now
RetryDue ==
    /\ lastResize.id = ClientSessionId
    /\ lastResize.status = 404
    /\ terminalSessions[ClientSessionId] # NoProc

\* the pty of the page's session has the geometry resizeTerminal would send
GeometryAgrees ==
    LET p == terminalSessions[ClientSessionId]
        d == ClientDims(termDims[1], termDims[2])
    IN  /\ p # NoProc
        /\ procs[p].cols = d.cols
        /\ procs[p].rows = d.rows

\* C31: a resize answered not-found because the session did not exist yet is
\* retried once the session has been created: the process geometry
\* eventually equals the client's geometry, without a further viewport change.
C31_ResizeRetriedWhenReady == RetryDue ~> GeometryAgrees

\* ---------------------------------------------------------------------- C32
\* the transport-close of channel a is handled after a later channel b has
\* attached to the same session and become its sink
LateDetach(a, b) ==
    /\ CloseStep(a)
    /\ chans[a].session # NoProc
    /\ b > a
    /\ chans[b].session = chans[a].session
    /\ procs[chans[a].session].sres = b

\* the pty of session object s emits a chunk after a late detach: an earlier
\* channel of the session closed once b, still open, was the latest attached
AfterLateDetach(s, b) ==
    /\ OnDataStep(s)
    /\ terminalSessions[procs[s].id] = s
    /\ chans[b].session = s
    /\ ~chans[b].destroyed
    /\ \A d \in DOMAIN chans : chans[d].session = s => d <= b
    /\ \E a \in DOMAIN chans :
          /\ a < b /\ chans[a].session = s
          /\ chans[a].destroyed /\ chans[a].closedAt >= b

\* C32: when channel B attached to a session and only afterwards the
\* transport-close of the earlier channel A is handled, the session's attached
\* sink is still B, and output emitted after that is delivered to B.
C32_LateDetachKeepsNewerSink ==
    [][/\ \A a, b \in DOMAIN chans :
             LateDetach(a, b) => procs'[chans[a].session].sres = b
       /\ \A s \in DOMAIN procs, b \in DOMAIN chans :
             AfterLateDetach(s, b) =>
                 chans'[b].frames = Append(chans[b].frames, OutputFrame(procs'[s].emitted))]_vars

\* ---------------------------------------------------------------------- C33
\* the exit notification of pty p has been handled by the onExit callback
ExitHandled(p) == procs[p].state = "notified"

\* C33: neither the input endpoint nor the initial-newline timer calls write
\* on a pty whose exit notification has been handled.
C33_NoWriteAfterExit ==
    [][\A p \in DOMAIN procs :
          ExitHandled(p) => procs'[p].written = procs[p].written]_vars

\* ---------------------------------------------------------------------- C34
\* every resize request the page issued has settled, and its latest fit did
\* issue one
AllResizesSettled ==
    /\ resizeInflight = <<>>
    /\ ~ResizeSkipped(termDims[1], termDims[2])

\* C34: when the page issued several resize requests for its registered
\* session and all of them have settled, the process geometry is the geometry
\* of the most recently issued request, in whatever order they were handled.
C34_LatestResizeWins ==
    terminalSessions[ClientSessionId] # NoProc /\ AllResizesSettled => GeometryAgrees

\* ---------------------------------------------------------------------- C35
\* the EventSource objects of the page that are connecting or open
LiveEs == {e \in DOMAIN es : es[e].readyState \in {"connecting", "open"}}

\* C35: at every reachable state of the page at most one EventSource is
\* connecting or open and at most one reconnect timer is pending.
C35_OneLiveChannel ==
    /\ Cardinality(LiveEs) <= 1
    /\ connectTimers <= 1

\* the first EventSource failed for good, the reconnect timer has fired and
\* the second EventSource is open
C35_Witness ==
    /\ Len(es) = 2
    /\ es[1].readyState = "closed"
    /\ es[2].readyState = "open"
    /\ netErrors >= 1
    /\ connectTimers = 0

\* ---------------------------------------------------------------------- C36
\* everything the server holds for session id b: its registry entry, its
\* ptys (state, geometry, attached sink, what was written to them) and its
\* channels with their frames
ViewOf(b) ==
    <<terminalSessions[b],
      [p \in {q \in DOMAIN procs : procs[q].id = b} |-> procs[p]],
      [c \in ChansOfId(b) |-> chans[c]]>>

\* the step is an attach, a transport close, an input, a resize, an output or
\* an exit for session id a
StepOf(a) ==
    \/ AttachStepFor(a)
    \/ \E c \in ChansOfId(a) : CloseStep(c)
    \/ lastResp' # lastResp /\ lastResp'.id = a
    \/ lastResize' # lastResize /\ lastResize'.id = a
    \/ \E p \in DOMAIN procs :
          /\ procs[p].id = a
          /\ \/ OnDataStep(p)
             \/ OnExitStep(p)
             \/ procs[p].state = "running" /\ procs'[p].state = "exited"

\* C36: a step for session id a leaves the registry entry, the process, its
\* geometry and attached sink, and the channels of every other session id b
\* unchanged; in particular no frame produced for a is written to a sink of b.
C36_SessionsIndependent ==
    [][\A a, b \in SessionIds : a # b /\ StepOf(a) => ViewOf(b)' = ViewOf(b)]_vars

\* both sessions are registered; s1 has been resized, written to and has
\* emitted output to its channel, s2 is as it was spawned
C36_Witness ==
    LET p == terminalSessions["s1"]
        q == terminalSessions["s2"]
    IN  /\ p # NoProc /\ q # NoProc
        /\ procs[p].cols = IntDim(120) /\ procs[q].cols = DefaultCols
        /\ procs[p].written # <<>> /\ procs[q].written = <<>>
        /\ procs[p].emitted > 0 /\ procs[q].emitted = 0
        /\ \A c \in ChansOfId("s2") : chans[c].frames = <<ConnectedFrame>>

\* ---------------------------------------------------------------------- C37
\* closure e has a flush timer pending or an animation frame requested
FlushPending(e) ==
    \/ es[e].timers # {}
    \/ \E k \in DOMAIN rafQueue : rafQueue[k] = e

\* C37: whenever the output buffer of a connection is non-empty a flush timer
\* or an animation-frame render is pending for it, so, timers and animation
\* frames firing, every received output payload is eventually written to the
\* terminal.
C37_BufferNeverStranded ==
    /\ [](\A e \in DOMAIN es : es[e].writeBuffer # <<>> => FlushPending(e))
    /\ \A n \in 1..MaxOut : (Len(received) >= n) ~> (Len(termOut) >= n)

\* the flush timer has fired: output waits in the buffer with no timer left
\* and the animation frame requested
C37_Witness ==
    \E e \in DOMAIN es :
        /\ es[e].writeBuffer # <<>>
        /\ es[e].timers = {}
        /\ \E k \in DOMAIN rafQueue : rafQueue[k] = e


====
